---- MODULE Spec2Model ----
(***************************************************************************)
(* Model of contrib/brew: build_library / build_repo (brew/brew.py), the   *)
(* git helpers clone / checkout (brew/git.py) and the Summary class.       *)
(*                                                                         *)
(* Text is modelled as a sequence of symbols.  A symbol is either one      *)
(* character or an indivisible run of characters ("refs/", "heads/", ...)  *)
(* no other symbol is a fragment of, so that concatenation, prefix tests   *)
(* and slicing behave as on Python strings.                                *)
(***************************************************************************)
EXTENDS Integers, Sequences, FiniteSets, TLC

\* ------------------------------------------------------------------ bounds
\* Total number of manifest lines read in one run.
MaxEntries == 2

\* ------------------------------------------------------------------ text
\* Python's None, kept apart from every string (the string 'None' included).
None == << "<None>" >>

\* str(x) as '{0}'.format(x) renders it.
Fmt(x) == IF x = None THEN << "None" >> ELSE x

WS == { " ", "\t", "\n" }

StartsWith(s, p) == Len(s) >= Len(p) /\ SubSeq(s, 1, Len(p)) = p

Drop(s, n) == SubSeq(s, n + 1, Len(s))

RECURSIVE SplitAcc(_, _, _)
SplitAcc(s, cur, acc) ==
    IF s = << >>
    THEN IF cur = << >> THEN acc ELSE Append(acc, cur)
    ELSE IF Head(s) \in WS
         THEN SplitAcc(Tail(s), << >>, IF cur = << >> THEN acc ELSE Append(acc, cur))
         ELSE SplitAcc(Tail(s), Append(cur, Head(s)), acc)

\* line.split(): the fields between runs of whitespace.
Split(line) == SplitAcc(line, << >>, << >>)

RefsHeads == << "refs/", "heads/" >>
RefsTags == << "refs/", "tags/" >>
RefsPrefix == << "refs/" >>
DEFAULT_BRANCH == << "master" >>
FormatError == "Incorrect line format, please refer to the docs"
NoDockerfile == "Dockerfile not found in cloned repository"

\* Line 72 with the bound off by one: four fields pass.
TooManyFieldsOffByOne(args) == Len(args) > 4

\* Line 72: len(args) > 3
TooManyFields(args) == Len(args) > 3

\* Lines 86-95 with the prefixes matched in either case.
ResolveAnyCase(field) ==
    IF Len(field) >= 2 /\ field[1] \in { "B", "b" } /\ field[2] = ":"
    THEN RefsHeads \o Drop(field, 2)
    ELSE IF Len(field) >= 2 /\ field[1] \in { "T", "t" } /\ field[2] = ":"
    THEN RefsTags \o Drop(field, 2)
    ELSE IF Len(field) >= 2 /\ field[1] \in { "C", "c" } /\ field[2] = ":"
    THEN Drop(field, 2)
    ELSE None

\* Lines 86-95: the ref of a third field, None where the code raises.
Resolve(field) ==
    IF StartsWith(field, << "B", ":" >>) THEN RefsHeads \o Drop(field, 2)
    ELSE IF StartsWith(field, << "T", ":" >>) THEN RefsTags \o Drop(field, 2)
    ELSE IF StartsWith(field, << "C", ":" >>) THEN Drop(field, 2)
    ELSE None

\* Lines 79-83 with the URL always taken from the first field.
UrlOfFirst(args) == IF Len(args) \in 1..3 THEN args[1] ELSE None

\* Lines 76, 79-83: url
UrlOf(args) ==
    IF Len(args) = 1 THEN args[1]
    ELSE IF Len(args) = 2 \/ Len(args) = 3 THEN args[2]
    ELSE None

\* Lines 81-83 with the tag taken from lines of two fields only.
TagOfTwoFields(args) == IF Len(args) = 2 THEN args[1] ELSE None

\* Lines 78, 81-83: tag
TagOf(args) == IF Len(args) = 2 \/ Len(args) = 3 THEN args[1] ELSE None

\* Lines 70-95 of build_library: the fields of a line, or the format error.
\* rev is the third field as written (args[2]), None when there is none.
ParseLine(line) ==
    LET args == Split(line)
        n == Len(args)
        url == UrlOf(args)
        tag == TagOf(args)
        rev == IF n = 3 THEN args[3] ELSE None
        ref == IF n # 3 THEN RefsHeads \o DEFAULT_BRANCH ELSE Resolve(args[3])
    IN  IF TooManyFields(args)
        THEN [exc |-> FormatError, url |-> None, tag |-> None, rev |-> None,
              ref |-> None]
        ELSE IF n = 3 /\ ref = None
             THEN [exc |-> FormatError, url |-> url, tag |-> tag, rev |-> rev,
                   ref |-> None]
             ELSE [exc |-> "", url |-> url, tag |-> tag, rev |-> rev, ref |-> ref]

\* '{0}@{1}'.format(url, ref): the key of the artifact in processed.
BuildKey(url, ref) == Fmt(url) \o << "@" >> \o Fmt(ref)

\* ------------------------------------------------------------------ values
\* What processed holds: a dulwich Repo (by handle) or an image id.
NoImg == [kind |-> "none", id |-> 0]
Rep(h) == [kind |-> "rep", id |-> h]
Img(n) == [kind |-> "img", id |-> n]

\* d[k] = v on a dict.
Put(d, k, v) == [x \in (DOMAIN d) \cup {k} |-> IF x = k THEN v ELSE d[x]]

EmptyDict == [x \in {} |-> NoImg]

\* One call of a collaborator, as the run made it.
\*   op: the operation; a, b: its text arguments; how: commit or symbolic
\*   (git only); img: the image argument or result; dir: the directory it
\*   used or made; fetched: client.fetch completed; ok: it returned.
\*   entry: the number of the manifest line being processed, 0 outside lines.
MkCall(op, a, b, how, img, dir, fetched, ok) ==
    [op |-> op, a |-> a, b |-> b, how |-> how, img |-> img, dir |-> dir,
     fetched |-> fetched, ok |-> ok, entry |-> 0]

\* The points where a collaborator can fail during one manifest line.
FailPoints ==
    { "none", "pull", "fetch", "ref", "checkout", "dockerfile", "build",
      "tag", "regtag", "push" }

Call(ctx, c) == [ctx EXCEPT !.calls = Append(@, [c EXCEPT !.entry = ctx.entry])]

Raise(ctx, msg) == [ctx EXCEPT !.exc = msg]

\* ------------------------------------------------------------------ git.py
\* is_commit of clone and checkout: a ref that does not start with refs/.
IsCommit(ref) == ref # None /\ ~StartsWith(ref, RefsPrefix)

RefOrMaster(ref) == IF ref = None THEN RefsHeads \o DEFAULT_BRANCH ELSE ref

How(ref) == IF IsCommit(ref) THEN "commit" ELSE "symbolic"

\* git.clone(repo_url, ref): mkdtemp, Repo.init, fetch, set HEAD, build index.
\* The directory exists from mkdtemp on, whatever fails later.
GitClone(ctx, repo_url, ref, f) ==
    LET folder == ctx.ndirs + 1
        c1 == [ctx EXCEPT !.ndirs = folder, !.disk = @ \cup {folder}]
        r == RefOrMaster(ref)
    IN  IF repo_url = None \/ f = "fetch"
        THEN Raise(Call(c1, MkCall("clone", repo_url, r, How(ref), NoImg,
                                   folder, FALSE, FALSE)), "fetch failed")
        ELSE IF f = "ref"
        THEN Raise(Call(c1, MkCall("clone", repo_url, r, How(ref), NoImg,
                                   folder, TRUE, FALSE)), "revision not found")
        ELSE [Call(c1, MkCall("clone", repo_url, r, How(ref), NoImg,
                              folder, TRUE, TRUE))
                EXCEPT !.repos = Append(@, [path |-> folder, head |-> r]),
                       !.rep = Rep(Len(ctx.repos) + 1),
                       !.folder = folder]

\* git.checkout without lines 25-31: the path is returned with HEAD and the
\* files where the checkout before left them.
GitCheckoutStale(ctx, rep, ref, f) ==
    LET r == RefOrMaster(ref)
        path == IF rep.kind = "rep" THEN ctx.repos[rep.id].path ELSE 0
    IN  IF rep.kind # "rep"
        THEN Raise(Call(ctx, MkCall("checkout", << >>, r, How(ref), rep, 0,
                                    FALSE, FALSE)), "not a repository")
        ELSE IF f = "checkout" \/ path \notin ctx.disk
        THEN Raise(Call(ctx, MkCall("checkout", << >>, r, How(ref), rep, path,
                                    FALSE, FALSE)), "revision not found")
        ELSE [Call(ctx, MkCall("checkout", << >>, r, How(ref), rep, path,
                               FALSE, TRUE))
                EXCEPT !.folder = path]

\* git.checkout(rep, ref): look the revision up, move HEAD, rebuild the index.
GitCheckout(ctx, rep, ref, f) ==
    LET r == RefOrMaster(ref)
        path == IF rep.kind = "rep" THEN ctx.repos[rep.id].path ELSE 0
    IN  IF rep.kind # "rep"
        THEN Raise(Call(ctx, MkCall("checkout", << >>, r, How(ref), rep, 0,
                                    FALSE, FALSE)), "not a repository")
        ELSE IF f = "checkout" \/ path \notin ctx.disk
        THEN Raise(Call(ctx, MkCall("checkout", << >>, r, How(ref), rep, path,
                                    FALSE, FALSE)), "revision not found")
        ELSE [Call(ctx, MkCall("checkout", << >>, r, How(ref), rep, path,
                               FALSE, TRUE))
                EXCEPT !.repos[rep.id].head = r,
                       !.folder = path]

\* git.clone_branch(repo_url, branch)
GitCloneBranch(ctx, repo_url, branch, f) ==
    GitClone(ctx, repo_url, RefsHeads \o branch, f)

\* ------------------------------------------------------------------ Summary
\* Summary(): _summary = {}, _has_exc = False
NewSummary == [data |-> [x \in {} |-> [y \in {} |-> 0]], has_exc |-> FALSE]

\* Summary._add_data(image, linestr, data)
AddData(s, image, linestr, data) ==
    IF image \notin DOMAIN s.data
    THEN [s EXCEPT !.data = Put(@, image, Put([y \in {} |-> 0], linestr, data))]
    ELSE [s EXCEPT !.data = Put(@, image, Put(s.data[image], linestr, data))]

\* Summary.add_exception(image, (lineno, linestr), exc)
AddException(s, image, lineno, linestr, exc) ==
    [AddData(s, image, linestr,
             [line |-> lineno, kind |-> "exc", exc |-> exc, id |-> NoImg])
        EXCEPT !.has_exc = TRUE]

\* Summary.add_success(image, (lineno, linestr), img_id)
AddSuccess(s, image, lineno, linestr, img_id) ==
    AddData(s, image, linestr,
            [line |-> lineno, kind |-> "id", exc |-> "", id |-> img_id])

\* Line 171 with the flag taken from the rows that are left.
OverallSuccessFromRows(s) ==
    \A im \in DOMAIN s.data : \A l \in DOMAIN s.data[im] : s.data[im][l].kind # "exc"

\* Line 171: not self._has_exc
OverallSuccess(s) == ~s.has_exc

\* The rows print_summary shows: one per (image, linestr) of _summary.
Rows(s) ==
    UNION { { [image |-> im, linestr |-> l, line |-> s.data[im][l].line,
               status |-> IF s.data[im][l].kind = "exc" THEN "KO" ELSE "OK",
               exc |-> s.data[im][l].exc, id |-> s.data[im][l].id] :
              l \in DOMAIN s.data[im] } : im \in DOMAIN s.data }

\* The sequences without repetition of all the elements of S.
Perms(S) ==
    { q \in [1..Cardinality(S) -> S] : \A x \in S : \E i \in DOMAIN q : q[i] = x }

\* Lines 173-182: the orders the two iteritems() loops can give the rows: image
\* after image, the lines of an image together, each dict in the order of
\* its hash table.
RenderOrders(s) ==
    { q \in Perms(Rows(s)) :
        \A i, j, k \in DOMAIN q :
            (i < j /\ j < k /\ q[i].image = q[k].image) => q[j].image = q[i].image }

\* ------------------------------------------------------------------ brew.py
\* Line 117 with the namespace left out.
DockerRepoNoNamespace(namespace, docker_repo) ==
    << "library" >> \o << "/" >> \o docker_repo

\* '{0}/{1}'.format(namespace or 'library', docker_repo)
DockerRepo(namespace, docker_repo) ==
    (IF namespace = None \/ namespace = << >> THEN << "library" >> ELSE namespace)
        \o << "/" >> \o docker_repo

\* Line 141 with the registry left out of the name.
RegistryRepoBare(registry, docker_repo) == docker_repo

\* '{0}/{1}'.format(registry, docker_repo)
RegistryRepo(registry, docker_repo) == registry \o << "/" >> \o docker_repo

\* Line 120 without the lookup: every line fetches and builds.
CacheMissAlways(processed, repository, ref) == TRUE

\* Line 120: the artifact of (repository, ref) is not in processed.
CacheMiss(processed, repository, ref) ==
    BuildKey(repository, ref) \notin DOMAIN processed

\* Line 122 without the lookup: every cache miss clones.
NeedCloneAlways(processed, repository) == TRUE

\* Line 122: no Repo is registered for the URL.
NeedClone(processed, repository) == repository \notin DOMAIN processed

\* Lines 122-127: clone the URL and register it, or check out on its Repo.
FetchOrCheckout(ctx, repository, ref, f) ==
    IF NeedClone(ctx.processed, repository)
    THEN LET g == GitClone(ctx, repository, ref, f)
         IN  IF g.exc # "" THEN g
             ELSE [g EXCEPT !.processed = Put(@, repository, g.rep),
                            !.processed_folders = Append(@, g.folder)]
    ELSE GitCheckout(ctx, ctx.processed[repository], ref, f)

\* Lines 128-129 without the raise: a tree without a Dockerfile is built.
CheckDockerfileIgnored(ctx, f) ==
    IF ctx.exc # "" THEN ctx
    ELSE Call(ctx, MkCall("dockerfile", << >>, << >>, "", NoImg, ctx.folder,
                          FALSE, f # "dockerfile"))

\* Lines 128-129: 'Dockerfile' in os.listdir(dst_folder)
CheckDockerfile(ctx, f) ==
    IF ctx.exc # "" THEN ctx
    ELSE IF f = "dockerfile"
    THEN Raise(Call(ctx, MkCall("dockerfile", << >>, << >>, "", NoImg, ctx.folder,
                                FALSE, FALSE)), NoDockerfile)
    ELSE Call(ctx, MkCall("dockerfile", << >>, << >>, "", NoImg, ctx.folder,
                          FALSE, TRUE))

\* Line 131: client.build(path=dst_folder, quiet=True)
ClientBuild(ctx, f) ==
    IF ctx.exc # "" THEN ctx
    ELSE IF f = "build"
    THEN Raise(Call(ctx, MkCall("build", << >>, << >>, "", NoImg, ctx.folder,
                                FALSE, FALSE)), "build failed")
    ELSE [Call(ctx, MkCall("build", << >>, << >>, "", Img(ctx.nbuilt + 1),
                           ctx.folder, FALSE, TRUE))
            EXCEPT !.nbuilt = @ + 1, !.img = Img(ctx.nbuilt + 1)]

\* Line 136 reached whatever the steps before it raised.
ClientTagAfterFailure(ctx, docker_repo, docker_tag, fails) ==
    IF fails
    THEN Raise(Call(ctx, MkCall("tag", docker_repo, docker_tag, "", ctx.img, 0,
                                FALSE, FALSE)), "tag failed")
    ELSE Call(ctx, MkCall("tag", docker_repo, docker_tag, "", ctx.img, 0,
                          FALSE, TRUE))

\* client.tag(img_id, docker_repo, docker_tag)
ClientTag(ctx, docker_repo, docker_tag, fails) ==
    IF ctx.exc # "" THEN ctx
    ELSE IF fails
    THEN Raise(Call(ctx, MkCall("tag", docker_repo, docker_tag, "", ctx.img, 0,
                                FALSE, FALSE)), "tag failed")
    ELSE Call(ctx, MkCall("tag", docker_repo, docker_tag, "", ctx.img, 0,
                          FALSE, TRUE))

\* client.push(docker_repo)
ClientPush(ctx, docker_repo, fails) ==
    IF ctx.exc # "" THEN ctx
    ELSE IF fails
    THEN Raise(Call(ctx, MkCall("push", docker_repo, << >>, "", NoImg, 0,
                                FALSE, FALSE)), "push failed")
    ELSE Call(ctx, MkCall("push", docker_repo, << >>, "", NoImg, 0, FALSE, TRUE))

\* Lines 137-144: with push, tag for the registry when one is given, then push.
PushStep(ctx, docker_repo, docker_tag, push, registry, f) ==
    IF ~push THEN ctx
    ELSE IF registry # None
    THEN ClientPush(ClientTag(ctx, RegistryRepo(registry, docker_repo), docker_tag,
                              f = "regtag"),
                    RegistryRepo(registry, docker_repo), f = "push")
    ELSE ClientPush(ctx, docker_repo, f = "push")

\* build_repo(repository, ref, docker_repo, docker_tag, namespace, push, registry):
\* the image id is left in ctx.img, a raised exception in ctx.exc.
BuildRepo(ctx, repository, ref, docker_repo, docker_tag, namespace, push, registry, f) ==
    LET name == DockerRepo(namespace, docker_repo)
        built == IF CacheMiss(ctx.processed, repository, ref)
                 THEN ClientBuild(CheckDockerfile(
                          FetchOrCheckout(ctx, repository, ref, f), f), f)
                 ELSE [ctx EXCEPT !.img = ctx.processed[BuildKey(repository, ref)]]
    IN  PushStep(ClientTag(built, name, docker_tag, f = "tag"),
                 name, docker_tag, push, registry, f)

\* Lines 96-99: client.pull(buildfile) when prefill is on.
Prefill(ctx, buildfile, prefill, f) ==
    IF ctx.exc # "" \/ ~prefill THEN ctx
    ELSE IF f = "pull"
    THEN Raise(Call(ctx, MkCall("pull", buildfile, << >>, "", NoImg, 0,
                                FALSE, FALSE)), "pull failed")
    ELSE Call(ctx, MkCall("pull", buildfile, << >>, "", NoImg, 0, FALSE, TRUE))

\* Lines 70-101: the try block of one line, up to the return of build_repo.
TryLine(ctx, buildfile, line, o, f) ==
    LET p == ParseLine(line)
    IN  IF p.exc # "" THEN Raise(ctx, p.exc)
        ELSE LET c == Prefill(ctx, buildfile, o.prefill, f)
             IN  IF c.exc # "" THEN c
                 ELSE BuildRepo(c, p.url, p.ref, buildfile, p.tag, o.namespace,
                                o.push, o.registry, f)

\* Lines 102-103: the line succeeded.
OnSuccess(c, s, buildfile, linecnt, line) ==
    LET p == ParseLine(line)
    IN  [ctx |-> [c EXCEPT !.processed = Put(@, BuildKey(p.url, p.ref), c.img)],
         summary |-> AddSuccess(s, buildfile, linecnt, line, c.img),
         next |-> "lines"]

\* Lines 104-106 with the exception raised again after it is recorded.
OnExceptionReraise(c, s, buildfile, linecnt, line) ==
    [ctx |-> c, summary |-> AddException(s, buildfile, linecnt, line, c.exc),
     next |-> "crashed"]

\* Lines 104-106: except Exception.
OnException(c, s, buildfile, linecnt, line) ==
    [ctx |-> c, summary |-> AddException(s, buildfile, linecnt, line, c.exc),
     next |-> "lines"]

\* Lines 68-106: the body of the loop over the lines of a manifest file.
LoopBody(ctx, s, buildfile, linecnt, line, o, f) ==
    LET c == TryLine(ctx, buildfile, line, o, f)
    IN  IF c.exc = "" THEN OnSuccess(c, s, buildfile, linecnt, line)
        ELSE OnException(c, s, buildfile, linecnt, line)

\* ------------------------------------------------------------------ inputs
DEFAULT_REPOSITORY == << "git://", "github.com/dotcloud/docker" >>
LocalPath == << "/srv/brew" >>
HttpsRepo == << "https://", "example.com/library.git" >>
MAINTAINERS == << "MAINTAINERS" >>

U1 == << "https://", "example.com/repo.git" >>
U2 == << "git://", "example.com/other.git" >>
SP == << " " >>
NL == << "\n" >>

\* Manifest lines, as read from a file (the newline included).
LineUrl == U1 \o NL
LineTagUrl == << "v1" >> \o SP \o U1 \o NL
LineBranch == << "myapp" >> \o SP \o U1 \o SP \o << "B", ":", "dev" >> \o NL
LineOther == << "v1" >> \o SP \o U2 \o NL
LineTag == << "myapp" >> \o SP \o U1 \o SP \o << "T", ":", "v1" >> \o NL
LineCommit == << "myapp" >> \o SP \o U1 \o SP \o << "C", ":", "abc123" >> \o NL
LineLower == << "myapp" >> \o SP \o U1 \o SP \o << "b", ":", "dev" >> \o NL
LineLong == << "too", " ", "many", " ", "fields", " ", "here" >> \o NL
LineBlank == << " " >> \o NL
LineLowerT == << "myapp" >> \o SP \o U1 \o SP \o << "t", ":", "v1" >> \o NL
LineLowerC == << "myapp" >> \o SP \o U1 \o SP \o << "c", ":", "abc123" >> \o NL
LineBare == << "myapp" >> \o SP \o U1 \o SP \o << "dev" >> \o NL

\* The lines the files of one library/ directory are made of.
PoolRevisions == { LineUrl, LineTagUrl, LineBranch }
PoolFormat == { LineCommit, LineOther, LineLower, LineLong, LineBlank }
Pools == { PoolRevisions, PoolFormat }

\* What os.listdir returns for library/.
DirLists ==
    { << >>,
      << MAINTAINERS, << "myapp" >> >>,
      << << "myapp" >>, MAINTAINERS, << "maintainers" >> >> }

\* The arguments of build_library: namespace, push, prefill, registry.
Config(namespace, push, prefill, registry) ==
    [namespace |-> namespace, push |-> push, prefill |-> prefill, registry |-> registry]

Configs ==
    { Config(None, FALSE, TRUE, None),
      Config(<< "acme" >>, TRUE, FALSE, None) }

Repositories == { None, LocalPath, HttpsRepo }

Options ==
    { [repository |-> r, branch |-> None, namespace |-> c.namespace, push |-> c.push,
       prefill |-> c.prefill, registry |-> c.registry] :
        r \in Repositories, c \in Configs }

\* ------------------------------------------------------------------ state
VARIABLES
    pc,                 \* where build_library is
    opts,               \* its arguments
    pool,               \* the lines its manifest files are made of
    dst_folder,         \* the local of that name
    dirlist, fidx,      \* os.listdir's result and the position of the file loop
    linecnt,            \* lines read of the open file
    processed,          \* the module's dict: URL -> Repo, 'url@ref' -> image id
    processed_folders,  \* the module's list of clone directories
    repos,              \* the Repo objects: working directory and HEAD
    disk,               \* the temporary directories that exist
    ndirs,              \* directories mkdtemp has made
    nbuilt,             \* images client.build has made
    summary,            \* the Summary of the run
    trace,              \* every collaborator call so far, in order
    entries,            \* one record per manifest line read so far
    report,             \* what print_summary rendered
    run,                \* the number of this build_library call in the process
    pline, parsed       \* a line given to lines 70-95 alone, and their result

vars ==
    << pc, opts, pool, dst_folder, dirlist, fidx, linecnt, processed,
       processed_folders, repos, disk, ndirs, nbuilt, summary, trace, entries,
       report, run, pline, parsed >>

\* What the steps of one build_library call leave alone.
aux == << run, pline, parsed >>

NoFolder == [kind |-> "none", str |-> << >>, rep |-> NoImg, dir |-> 0]
NoReport == [rendered |-> FALSE, success |-> FALSE, rows |-> {}, order |-> << >>]

NoLine == [fields |-> << >>, text |-> << >>]
NoParse == [exc |-> "", url |-> None, tag |-> None, rev |-> None, ref |-> None]

\* The first build_library call of a process, with arguments among O and the
\* manifest lines of one pool among P.
InitWith(O, P) ==
    /\ pc = "start"
    /\ opts \in O
    /\ pool \in P
    /\ dst_folder = NoFolder
    /\ dirlist = << >>
    /\ fidx = 0
    /\ linecnt = 0
    /\ processed = EmptyDict
    /\ processed_folders = << >>
    /\ repos = << >>
    /\ disk = {}
    /\ ndirs = 0
    /\ nbuilt = 0
    /\ summary = NewSummary
    /\ trace = << >>
    /\ entries = << >>
    /\ report = NoReport
    /\ run = 1
    /\ pline = NoLine
    /\ parsed = NoParse

Init == InitWith(Options, Pools)

\* The module state as the steps of one line thread it.
Ctx(entry) ==
    [processed |-> processed, processed_folders |-> processed_folders,
     repos |-> repos, disk |-> disk, ndirs |-> ndirs, nbuilt |-> nbuilt,
     calls |-> trace, exc |-> "", rep |-> NoImg, folder |-> 0, img |-> NoImg,
     entry |-> entry]

\* Lines 24-27: the defaults of repository and branch.
Repository == IF opts.repository = None THEN DEFAULT_REPOSITORY ELSE opts.repository
Branch == IF opts.branch = None THEN DEFAULT_BRANCH ELSE opts.branch

\* Line 31
IsRemote(repository) ==
    StartsWith(repository, << "https://" >>) \/ StartsWith(repository, << "git://" >>)

\* Line 46: not dst_folder
NotSet(d) == d.kind = "none" \/ (d.kind = "str" /\ d.str = << >>)

\* Lines 37-42 without the return: the run goes on to the manifest.
OnVersionFailureContinue == "list"

\* Lines 37-42: client.version() raised.
OnVersionFailure == "aborted"

\* Lines 22-42: up to the reachability check of the engine.
Start ==
    /\ pc = "start"
    /\ \E ok \in BOOLEAN :
        LET d == IF ~IsRemote(Repository)
                 THEN [NoFolder EXCEPT !.kind = "str", !.str = Repository]
                 ELSE NoFolder
        IN  /\ dst_folder' = d
            /\ summary' = NewSummary
            /\ trace' = Append(trace, MkCall("version", << >>, << >>, "", NoImg, 0,
                                             FALSE, ok))
            /\ pc' = IF ~ok THEN OnVersionFailure
                     ELSE IF NotSet(d) THEN "clone" ELSE "list"
    /\ UNCHANGED << opts, pool, dirlist, fidx, linecnt, processed, processed_folders,
                    repos, disk, ndirs, nbuilt, entries, report,
                    aux >>

\* Lines 46-55: clone the manifest repository.
CloneManifest ==
    /\ pc = "clone"
    /\ \E f \in { "none", "fetch", "ref" } :
        LET g == GitCloneBranch(Ctx(0), Repository, Branch, f)
        IN  /\ trace' = g.calls
            /\ disk' = g.disk
            /\ ndirs' = g.ndirs
            /\ repos' = g.repos
            /\ IF g.exc # ""
               THEN pc' = "aborted" /\ UNCHANGED dst_folder
               ELSE /\ pc' = "list"
                    \* clone returns the pair (rep, folder)
                    /\ dst_folder' = [NoFolder EXCEPT !.kind = "tuple", !.rep = g.rep,
                                                      !.dir = g.folder]
    /\ UNCHANGED << opts, pool, dirlist, fidx, linecnt, processed, processed_folders,
                    nbuilt, summary, entries, report,
                    aux >>

\* Line 63 with the name compared without regard to case.
IsMaintainersAnyCase(buildfile) == buildfile \in { MAINTAINERS, << "maintainers" >> }

\* Line 63: buildfile == 'MAINTAINERS'
IsMaintainers(buildfile) == buildfile = MAINTAINERS

RECURSIVE NextFile(_, _)
\* Lines 62-64: the next name of dirlist from position i on that is not
\* MAINTAINERS (the length plus one when there is none).
NextFile(d, i) ==
    IF i > Len(d) THEN i
    ELSE IF IsMaintainers(d[i]) THEN NextFile(d, i + 1)
    ELSE i

\* Lines 62-66: the head of the loop over dirlist, from position i: open the
\* next manifest file, or leave the loop.
ForFile(d, i, calls) ==
    LET j == NextFile(d, i)
    IN  IF j > Len(d)
        THEN [fidx |-> j, pc |-> "finish", calls |-> calls]
        ELSE [fidx |-> j, pc |-> "lines",
              calls |-> Append(calls, MkCall("open", d[j], << >>, "", NoImg, 0,
                                             FALSE, TRUE))]

\* Lines 58-61 without the return: the run goes on to the cleanup and the report.
OnListdirFailureFinish == "finish"

\* Lines 58-61: os.listdir raised OSError.
OnListdirFailure == "aborted"

\* Lines 56-66: os.listdir(os.path.join(dst_folder, 'library')), then the first
\* file.  os.path.join of a tuple raises AttributeError, which the except
\* OSError clause lets through.
ListLibrary ==
    /\ pc = "list"
    /\ IF dst_folder.kind = "tuple"
       THEN pc' = "crashed" /\ UNCHANGED << dirlist, fidx, trace >>
       ELSE \/ /\ pc' = OnListdirFailure
               /\ trace' = Append(trace, MkCall("listdir", dst_folder.str, << >>, "",
                                                NoImg, 0, FALSE, FALSE))
               /\ UNCHANGED << dirlist, fidx >>
            \/ \E d \in DirLists :
                LET h == ForFile(d, 1,
                             Append(trace, MkCall("listdir", dst_folder.str, << >>, "",
                                                  NoImg, 0, FALSE, TRUE)))
                IN  /\ dirlist' = d
                    /\ fidx' = h.fidx
                    /\ pc' = h.pc
                    /\ trace' = h.calls
    /\ linecnt' = 0
    /\ UNCHANGED << opts, pool, dst_folder, processed, processed_folders,
                    repos, disk, ndirs, nbuilt, summary, entries, report,
                    aux >>

\* Lines 67-106: read one more line of the open file and process it.
ProcessLine ==
    /\ pc = "lines"
    /\ Len(entries) < MaxEntries
    /\ \E line \in pool, f \in FailPoints :
        LET n == Len(entries) + 1
            r == LoopBody(Ctx(n), summary, dirlist[fidx], linecnt + 1, line, opts, f)
            p == ParseLine(line)
        IN  /\ linecnt' = linecnt + 1
            /\ processed' = r.ctx.processed
            /\ processed_folders' = r.ctx.processed_folders
            /\ repos' = r.ctx.repos
            /\ disk' = r.ctx.disk
            /\ ndirs' = r.ctx.ndirs
            /\ nbuilt' = r.ctx.nbuilt
            /\ trace' = r.ctx.calls
            /\ summary' = r.summary
            /\ pc' = r.next
            /\ entries' = Append(entries,
                   [file |-> dirlist[fidx], lineno |-> linecnt + 1, line |-> line,
                    url |-> p.url, ref |-> p.ref, tag |-> p.tag, rev |-> p.rev,
                    before |-> processed,
                    ok |-> r.ctx.exc = "", exc |-> r.ctx.exc, img |-> r.ctx.img])
    /\ UNCHANGED << opts, pool, dst_folder, dirlist, fidx, report,
                    aux >>

\* Lines 108, 62-66: the file is exhausted; f.close(), then the next file.
CloseFile ==
    /\ pc = "lines"
    /\ LET h == ForFile(dirlist, fidx + 1,
                    Append(trace, MkCall("close", dirlist[fidx], << >>, "", NoImg, 0,
                                         FALSE, TRUE)))
       IN  /\ fidx' = h.fidx
           /\ pc' = h.pc
           /\ trace' = h.calls
    /\ linecnt' = 0
    /\ UNCHANGED << opts, pool, dst_folder, dirlist, processed,
                    processed_folders, repos, disk, ndirs, nbuilt, summary, entries,
                    report,
                    aux >>

RECURSIVE RmTrees(_, _, _)
\* rmtree(d, True) for each d of a list, in order.
RmTrees(ctx, folders, i) ==
    IF i > Len(folders) THEN ctx
    ELSE RmTrees([Call(ctx, MkCall("rmtree", << >>, << >>, "", NoImg, folders[i],
                                   FALSE, TRUE))
                    EXCEPT !.disk = @ \ { folders[i] }],
                 folders, i + 1)

\* Line 109 without the comparison: the manifest directory is always removed.
KeepManifestNever(d, repository) == FALSE

\* Line 109: dst_folder is the repository argument itself, a local path.
KeepManifest(d, repository) == d.kind = "str" /\ d.str = repository

\* Lines 109-110: rmtree(dst_folder, True) unless it is the local path given.
RmManifest(ctx) ==
    IF KeepManifest(dst_folder, Repository) THEN ctx
    ELSE IF dst_folder.kind = "str"
    THEN Call(ctx, MkCall("rmtree", dst_folder.str, << >>, "", NoImg, 0, FALSE, TRUE))
    ELSE RmTrees(ctx, << dst_folder.dir >>, 1)

\* Lines 109-112: remove the manifest clone and the registered clone directories.
Cleanup(ctx) == RmTrees(RmManifest(ctx), processed_folders, 1)

\* Lines 109-113 with the report rendered before the directories are removed.
FinishReportFirst ==
    /\ pc = "finish"
    /\ LET c == Cleanup([Ctx(0) EXCEPT !.calls =
                    Append(trace, MkCall("print_summary", << >>, << >>, "",
                                         NoImg, 0, FALSE, TRUE))])
       IN  /\ disk' = c.disk
           /\ trace' = c.calls
    /\ \E o \in RenderOrders(summary) :
          report' = [rendered |-> TRUE, success |-> OverallSuccess(summary),
                     rows |-> Rows(summary), order |-> o]
    /\ pc' = "done"
    /\ UNCHANGED << opts, pool, dst_folder, dirlist, fidx, linecnt, processed,
                    processed_folders, repos, ndirs, nbuilt, summary, entries,
                    aux >>

\* Lines 109-113: the loop over dirlist is over; clean up, then
\* summary.print_summary(logger).
Finish ==
    /\ pc = "finish"
    /\ LET c == Cleanup(Ctx(0))
       IN  /\ disk' = c.disk
           /\ trace' = Append(c.calls, MkCall("print_summary", << >>, << >>, "",
                                              NoImg, 0, FALSE, TRUE))
    /\ \E o \in RenderOrders(summary) :
          report' = [rendered |-> TRUE, success |-> OverallSuccess(summary),
                     rows |-> Rows(summary), order |-> o]
    /\ pc' = "done"
    /\ UNCHANGED << opts, pool, dst_folder, dirlist, fidx, linecnt, processed,
                    processed_folders, repos, ndirs, nbuilt, summary, entries,
                    aux >>

Next ==
    \/ Start
    \/ CloneManifest
    \/ ListLibrary
    \/ ProcessLine
    \/ CloseFile
    \/ Finish

Spec == Init /\ [][Next]_vars

\* ------------------------------------------------------- a second call
\* The calls of build_library one process makes.
MaxRuns == 2

\* build_library has returned and the process calls it again with the same
\* arguments.  Its locals (lines 22-23) are new; the module globals of
\* lines 15-17 and the disk are what the call before left.  trace and entries
\* go on as the history of the process.
Rerun ==
    /\ pc \in { "done", "aborted" }
    /\ run < MaxRuns
    /\ run' = run + 1
    /\ pc' = "start"
    /\ dst_folder' = NoFolder
    /\ dirlist' = << >>
    /\ fidx' = 0
    /\ linecnt' = 0
    /\ report' = NoReport
    /\ UNCHANGED << opts, pool, processed, processed_folders, repos, disk, ndirs,
                    nbuilt, summary, trace, entries, pline, parsed >>

InitRerun ==
    InitWith({ [repository |-> r, branch |-> None, namespace |-> None,
                push |-> FALSE, prefill |-> TRUE, registry |-> None] :
                  r \in { LocalPath, HttpsRepo } },
             { { LineUrl } })

NextRerun ==
    \/ Start
    \/ CloneManifest
    \/ ListLibrary
    \/ ProcessLine
    \/ CloseFile
    \/ Finish
    \/ Rerun

SpecRerun == InitRerun /\ [][NextRerun]_vars

\* ------------------------------------------------- the revision prefixes
\* Lines with no third field or one that is not a revision, and lines with
\* every kind of revision.
PoolNoRevision ==
    { LineUrl, LineTagUrl, LineLower, LineLowerT, LineLowerC, LineBare }
PoolPrefix == { LineBranch, LineTag, LineCommit, LineLowerT }

InitPrefix ==
    InitWith({ [repository |-> r, branch |-> None, namespace |-> None,
                push |-> FALSE, prefill |-> TRUE, registry |-> None] :
                  r \in { LocalPath, HttpsRepo } },
             { PoolNoRevision, PoolPrefix })

SpecPrefix == InitPrefix /\ [][Next]_vars

\* ------------------------------------------- lines at the edge of the format
\* A URL, and the URL that reads as the first one, '@' and refs/heads/master.
UX == << "git://", "example.com/x.git" >>
UAt == UX \o << "@", "refs/", "heads/", "master" >>

LineX == UX \o NL
LineAt == UAt \o NL
\* A commit field whose text begins with refs/.
LineCommitRefs ==
    << "myapp" >> \o SP \o U1 \o SP \o << "C", ":", "refs/", "heads/", "dev" >> \o NL

LineXBranch == << "myapp" >> \o SP \o UX \o SP \o << "B", ":", "dev" >> \o NL

PoolEdge == { LineX, LineXBranch, LineAt, LineCommitRefs }

InitEdge ==
    InitWith({ [repository |-> r, branch |-> None, namespace |-> None,
                push |-> FALSE, prefill |-> FALSE, registry |-> None] :
                  r \in { LocalPath, HttpsRepo } },
             { PoolEdge })

SpecEdge == InitEdge /\ [][Next]_vars

\* ---------------------------------------------- two pairs with one key
\* The URL x.git@abc at commit def, and the URL x.git at commit abc@def.
LineAtCommit ==
    << "myapp" >> \o SP \o UX \o << "@", "abc" >> \o SP \o << "C", ":", "def" >> \o NL
LineCommitAt ==
    << "myapp" >> \o SP \o UX \o SP \o << "C", ":", "abc", "@", "def" >> \o NL

PoolCollide == { LineAtCommit, LineCommitAt }

InitKeys ==
    InitWith({ [repository |-> r, branch |-> None, namespace |-> None,
                push |-> FALSE, prefill |-> FALSE, registry |-> None] :
                  r \in { LocalPath, HttpsRepo } },
             { PoolCollide })

SpecKeys == InitKeys /\ [][Next]_vars

\* ------------------------------------------------------------- pushing
Registry == << "registry.example.com" >>

\* push off with a registry, push on with one, push on without.
ConfigsPush ==
    { Config(None, FALSE, FALSE, Registry),
      Config(<< "acme" >>, TRUE, FALSE, Registry),
      Config(None, TRUE, FALSE, None) }

InitPush ==
    InitWith({ [repository |-> r, branch |-> None, namespace |-> c.namespace,
                push |-> c.push, prefill |-> c.prefill, registry |-> c.registry] :
                  r \in { LocalPath, HttpsRepo }, c \in ConfigsPush },
             { { LineUrl, LineTagUrl } })

SpecPush == InitPush /\ [][Next]_vars

\* ------------------------------------------------- lines 70-95 on their own
\* The most fields of a line given to the parsing.
MaxFields == 4

\* The fields lines are made of, and what separates them.
Fields ==
    { << "myapp" >>, U1, << "B", ":", "dev" >>, << "c", ":", "abc123" >> }
Separators == { SP, << "\t" >>, SP \o SP }

RECURSIVE Join(_, _)
\* The fields fs written on one line with sep between them.
Join(fs, sep) ==
    IF fs = << >> THEN << >>
    ELSE IF Len(fs) = 1 THEN fs[1]
    ELSE fs[1] \o sep \o Join(Tail(fs), sep)

FieldSeqs == UNION { [1..n -> Fields] : n \in 0..MaxFields }

\* The lines as a file gives them: the newline at the end, blanks before it
\* or not.
ParseLines ==
    { [fields |-> fs, text |-> Join(fs, sep) \o end] :
        fs \in FieldSeqs, sep \in Separators, end \in { NL, SP \o NL } }

InitParse ==
    /\ pc = "parse"
    /\ pline \in ParseLines
    /\ parsed = NoParse
    /\ opts = [repository |-> LocalPath, branch |-> None, namespace |-> None,
               push |-> FALSE, prefill |-> TRUE, registry |-> None]
    /\ pool = {}
    /\ dst_folder = NoFolder
    /\ dirlist = << >>
    /\ fidx = 0
    /\ linecnt = 0
    /\ processed = EmptyDict
    /\ processed_folders = << >>
    /\ repos = << >>
    /\ disk = {}
    /\ ndirs = 0
    /\ nbuilt = 0
    /\ summary = NewSummary
    /\ trace = << >>
    /\ entries = << >>
    /\ report = NoReport
    /\ run = 1

\* Lines 70-95 applied to the line.
ParseStep ==
    /\ pc = "parse"
    /\ parsed' = ParseLine(pline.text)
    /\ pc' = "parsed"
    /\ UNCHANGED << opts, pool, dst_folder, dirlist, fidx, linecnt, processed,
                    processed_folders, repos, disk, ndirs, nbuilt, summary, trace,
                    entries, report, run, pline >>

NextParse == ParseStep

SpecParse == InitParse /\ [][NextParse]_vars

\* ------------------------------------------------------------------ claims
\* The positions in trace of the calls made while line k was processed.
CallsOf(k) == { i \in DOMAIN trace : trace[i].entry = k }

\* The positions in trace of the calls of operation op.
Ops(op) == { i \in DOMAIN trace : trace[i].op = op }

\* The lines that passed lines 70-95 (a URL and a revision were resolved).
Parsed == { k \in DOMAIN entries : entries[k].exc # FormatError }

\* The lines that entered build_repo.
Entered ==
    { k \in Parsed : ~ \E i \in CallsOf(k) : trace[i].op = "pull" /\ ~trace[i].ok }

SameKey(i, j) ==
    entries[i].url = entries[j].url /\ entries[i].ref = entries[j].ref

\* C1: in one run git.clone is invoked at most once for each source URL.
C1_OneClonePerUrl ==
    \A i, j \in Ops("clone") :
        (trace[i].entry > 0 /\ trace[j].entry > 0 /\ trace[i].a # None
            /\ trace[i].a = trace[j].a) => i = j

\* C2: once client.build has returned an image for (url, ref), no later line
\* with the same (url, ref) invokes client.build, and a later line that
\* succeeds reports that image.
C2_BuiltOncePerKey ==
    \A i, j \in Parsed :
        (i < j /\ SameKey(i, j)) =>
            \A b \in CallsOf(i) \cap Ops("build") :
                trace[b].ok =>
                    /\ CallsOf(j) \cap Ops("build") = {}
                    /\ entries[j].ok => entries[j].img = trace[b].img

\* C3: a line that raised is recorded as a failure of that line (its number,
\* its message, _has_exc set), the run neither aborts nor lets the exception
\* out, and a finished run has opened every manifest file of the listing.
C3_EntryErrorsIsolated ==
    /\ entries # << >> => pc \in { "lines", "finish", "done" }
    /\ (entries # << >> /\ pc = "lines" /\ linecnt = entries[Len(entries)].lineno
            /\ ~entries[Len(entries)].ok) =>
          LET e == entries[Len(entries)]
          IN  /\ e.file = dirlist[fidx]
              /\ summary.has_exc
              /\ e.file \in DOMAIN summary.data
              /\ e.line \in DOMAIN summary.data[e.file]
              /\ summary.data[e.file][e.line] =
                    [line |-> e.lineno, kind |-> "exc", exc |-> e.exc, id |-> NoImg]
    /\ pc = "done" =>
          \A i \in DOMAIN dirlist :
              dirlist[i] # MAINTAINERS =>
                  \E o \in Ops("open") : trace[o].a = dirlist[i]

\* A failed line of one file is followed by a line of a later file, and the
\* run ends with the report.
C3_Witness ==
    /\ pc = "done"
    /\ Len(entries) = 2
    /\ ~entries[1].ok
    /\ entries[1].file # entries[2].file
    /\ entries[2].ok

\* C4: after a run that ends with the report no directory made by mkdtemp is
\* left on disk.
C4_NoTempDirLeft == pc = "done" => disk = {}

\* C5: the report holds exactly one row for each line read, under the line's
\* file and number.
C5_OneRowPerLine ==
    pc = "done" =>
        /\ Cardinality(report.rows) = Len(entries)
        /\ \A k \in DOMAIN entries :
              \E r \in report.rows :
                  /\ r.image = entries[k].file
                  /\ r.line = entries[k].lineno
                  /\ (r.status = "OK") = entries[k].ok

\* C6: build_library returns after an abort message or after the report; no
\* exception leaves it.
C6_NoExceptionEscapes == pc # "crashed"

\* C7: a failed client.pull is ignored: build_repo runs for the line and the
\* line is not recorded as failed because of the pull.
C7_PullFailureIgnored ==
    \A k \in DOMAIN entries :
        \A i \in CallsOf(k) :
            (trace[i].op = "pull" /\ ~trace[i].ok) =>
                /\ entries[k].exc # "pull failed"
                /\ \E j \in CallsOf(k) :
                      j > i /\ trace[j].op \in { "clone", "checkout", "tag" }

\* C8: a line whose key is in processed when build_repo starts makes no
\* clone, checkout, Dockerfile check or build; its first call in build_repo
\* is the tag of the cached value, which is what a successful line reports.
C8_CacheHitSkipsBuild ==
    \A k \in Entered :
        LET e == entries[k]
            key == BuildKey(e.url, e.ref)
            mine == { i \in CallsOf(k) : trace[i].op # "pull" }
        IN  key \in DOMAIN e.before =>
                /\ \A i \in mine :
                      trace[i].op \notin { "clone", "checkout", "dockerfile", "build" }
                /\ mine # {}
                /\ \A i \in mine :
                      (\A j \in mine : i <= j) =>
                          trace[i].op = "tag" /\ trace[i].img = e.before[key]
                /\ e.ok => e.img = e.before[key]

\* A line found its key in processed, was tagged and succeeded.
C8_Witness ==
    \E k \in Entered :
        /\ BuildKey(entries[k].url, entries[k].ref) \in DOMAIN entries[k].before
        /\ entries[k].ok
        /\ \E i \in CallsOf(k) : trace[i].op = "tag" /\ trace[i].ok

\* The URLs of the lines that entered build_repo with one.
Urls == { entries[k].url : k \in Entered } \ { None }

\* C9: for the lines of one URL that use M distinct revisions there is
\* exactly one clone of the URL, and clone and checkouts together are M.
C9_FetchAndCheckoutCount ==
    pc = "done" =>
        \A u \in Urls :
            LET mine == { k \in Entered : entries[k].url = u }
                M == Cardinality({ entries[k].ref : k \in mine })
                clones == { i \in Ops("clone") : trace[i].entry \in mine }
                checkouts == { i \in Ops("checkout") : trace[i].entry \in mine }
            IN  /\ Cardinality(clones) = 1
                /\ Cardinality(clones) + Cardinality(checkouts) = M

\* C10: client.version is the first call of a run, and when it fails it is
\* the only one: nothing is cloned, listed, opened, pulled, built, tagged
\* or pushed, and the run has aborted.
C10_VersionFirst ==
    /\ trace # << >> => trace[1].op = "version"
    /\ pc # "start" => trace # << >>
    /\ (trace # << >> /\ ~trace[1].ok) =>
          /\ Len(trace) = 1
          /\ pc = "aborted"
          /\ entries = << >>
          /\ dirlist = << >>
          /\ disk = {}
          /\ ndirs = 0
          /\ processed = EmptyDict

\* The engine was unreachable and the run has aborted.
C10_Witness == pc = "aborted" /\ Len(trace) = 1 /\ ~trace[1].ok

\* A run-fatal event: the engine did not answer, the manifest repository
\* could not be cloned, or library/ could not be listed.
RunFatal ==
    \E i \in DOMAIN trace :
        /\ trace[i].entry = 0
        /\ ~trace[i].ok
        /\ trace[i].op \in { "version", "clone", "listdir" }

\* C11: after a run-fatal event no outcome is added to the Summary, no file is
\* opened and no line processed, and print_summary is not invoked.
C11_RunFatalNoReport ==
    RunFatal =>
        /\ pc = "aborted"
        /\ summary = NewSummary
        /\ entries = << >>
        /\ Ops("open") = {}
        /\ Ops("print_summary") = {}
        /\ ~report.rendered

\* library/ could not be listed and the run has aborted.
C11_Witness ==
    pc = "aborted" /\ \E i \in Ops("listdir") : ~trace[i].ok

\* C12: a call of build_library starts with processed and processed_folders
\* empty, whatever the calls before it did.
C12_CachesEmptyAtStart ==
    pc = "start" => processed = EmptyDict /\ processed_folders = << >>

\* C13: when the manifest repository was cloned, the run lists library/ of
\* the clone and goes on to the files.
C13_RemoteManifestListed ==
    (/\ pc \notin { "start", "clone", "list" }
     /\ \E i \in Ops("clone") : trace[i].entry = 0 /\ trace[i].ok)
        => /\ Ops("listdir") # {}
           /\ pc \in { "lines", "finish", "done", "aborted" }

\* The lines for which add_exception was called.
Failed == { k \in DOMAIN entries : ~entries[k].ok }

\* C14: the overall flag of the report is true exactly when add_exception was
\* never called, whatever was added later under the same file and line.
C14_SuccessIffNoException ==
    report.rendered => (report.success <=> Failed = {})

\* A line failed, the same line of the same file then succeeded, and the
\* report says the run failed.
C14_Witness ==
    /\ report.rendered
    /\ ~report.success
    /\ \E i, j \in DOMAIN entries :
          /\ i < j
          /\ entries[i].file = entries[j].file
          /\ entries[i].line = entries[j].line
          /\ ~entries[i].ok
          /\ entries[j].ok

\* C15: an outcome added to the Summary is never changed or replaced by a
\* later addition.
C15_OutcomesNeverReplaced ==
    [][\A im \in DOMAIN summary.data :
          /\ im \in DOMAIN summary'.data
          /\ \A l \in DOMAIN summary.data[im] :
                /\ l \in DOMAIN summary'.data[im]
                /\ summary'.data[im][l] = summary.data[im][l]]_vars

\* The lines of four fields or more.
Long == { k \in DOMAIN entries : Len(Split(entries[k].line)) >= 4 }

\* C16: a line of four fields or more gets one Failure outcome with the
\* format message and no collaborator call, and the loop goes on.
C16_LongLineFails ==
    \A k \in Long :
        /\ ~entries[k].ok
        /\ entries[k].exc = FormatError
        /\ CallsOf(k) = {}
        /\ pc \in { "lines", "finish", "done" }
        /\ k = Len(entries) =>
              LET e == entries[k]
              IN  /\ e.file \in DOMAIN summary.data
                  /\ e.line \in DOMAIN summary.data[e.file]
                  /\ summary.data[e.file][e.line] =
                        [line |-> e.lineno, kind |-> "exc", exc |-> FormatError,
                         id |-> NoImg]
                  /\ summary.has_exc

\* A line of four fields failed and the line after it was built.
C16_Witness ==
    \E k \in Long :
        /\ k + 1 \in DOMAIN entries
        /\ entries[k + 1].ok
        /\ entries[k + 1].file = entries[k].file
        /\ \E i \in CallsOf(k + 1) : trace[i].op = "build" /\ trace[i].ok

\* C17: a blank line is skipped: it gets no outcome and no collaborator is
\* called for it.
C17_BlankLineSkipped ==
    \A k \in DOMAIN entries :
        Split(entries[k].line) = << >> =>
            /\ CallsOf(k) = {}
            /\ ~ \E r \in Rows(summary) :
                    r.image = entries[k].file /\ r.linestr = entries[k].line

\* C18: a line of one field f1 parses to (url, tag, revision spec) =
\* (f1, none, none), of two fields to (f2, f1, none), of three to (f2, f1, f3).
C18_FieldsOfLine ==
    pc = "parsed" =>
        LET fs == pline.fields
        IN  /\ Len(fs) = 1 =>
                 parsed.url = fs[1] /\ parsed.tag = None /\ parsed.rev = None
            /\ Len(fs) = 2 =>
                 parsed.url = fs[2] /\ parsed.tag = fs[1] /\ parsed.rev = None
            /\ Len(fs) = 3 =>
                 parsed.url = fs[2] /\ parsed.tag = fs[1] /\ parsed.rev = fs[3]

\* A line of three fields separated by tabs was parsed.
C18_Witness ==
    /\ pc = "parsed"
    /\ Len(pline.fields) = 3
    /\ "\t" \in { pline.text[i] : i \in DOMAIN pline.text }
    /\ parsed.url = pline.fields[2]
    /\ parsed.url # pline.fields[1]

\* The revision each kind of line resolves to, written out.
Master == << "refs/", "heads/", "master" >>
ExpectedRef(line) ==
    IF line \in { LineUrl, LineTagUrl } THEN Master
    ELSE IF line = LineBranch THEN << "refs/", "heads/", "dev" >>
    ELSE IF line = LineTag THEN << "refs/", "tags/", "v1" >>
    ELSE IF line = LineCommit THEN << "abc123" >>
    ELSE None

\* C19: the revision given to clone and checkout is refs/heads/master for a
\* line without a third field, refs/heads/<name> for B:<name>,
\* refs/tags/<name> for T:<name> and <hash> for C:<hash>; a line with any
\* other third field fails with the format message and nothing is pulled,
\* fetched, checked out or built for it.
C19_ResolvedRevision ==
    \A k \in DOMAIN entries :
        LET e == entries[k]
        IN  IF ExpectedRef(e.line) # None
            THEN /\ e.ref = ExpectedRef(e.line)
                 /\ e.exc # FormatError
                 /\ \A i \in CallsOf(k) :
                       trace[i].op \in { "clone", "checkout" } =>
                           trace[i].b = ExpectedRef(e.line)
            ELSE /\ ~e.ok
                 /\ e.exc = FormatError
                 /\ \A i \in CallsOf(k) :
                       trace[i].op \notin { "pull", "clone", "checkout", "build" }

\* A tag line was fetched at its tag, and a line with a lowercase prefix
\* failed.
C19_Witness ==
    \E j, k \in DOMAIN entries :
        /\ entries[j].line = LineTag
        /\ \E i \in CallsOf(j) : trace[i].op = "clone" /\ trace[i].ok
        /\ entries[k].line = LineLowerT
        /\ ~entries[k].ok

\* The artifact of line k: the one built for it, or the one of its key that
\* was in processed before it.
ArtifactOf(k) ==
    IF \E i \in CallsOf(k) : trace[i].op = "build"
    THEN trace[CHOOSE i \in CallsOf(k) : trace[i].op = "build"].img
    ELSE entries[k].before[BuildKey(entries[k].url, entries[k].ref)]

\* The repository name of the image of line k.
NameOf(k) ==
    (IF opts.namespace = None THEN << "library" >> ELSE opts.namespace)
        \o << "/" >> \o entries[k].file

Scenario ==
    { k \in DOMAIN entries :
        /\ entries[k].line = LineBranch
        /\ entries[k].file = << "myapp" >>
        /\ opts.namespace = None }

\* The key of the scenario in processed.
ScenarioKey ==
    << "https://", "example.com/repo.git", "@", "refs/", "heads/", "dev" >>

\* C21 as stated: the line resolves to refs/heads/dev, its artifact is
\* recorded under (url, refs/heads/dev), and it is tagged library/myapp with
\* the tag latest (no tag, or "latest").
C21_ScenarioLatest ==
    \A k \in Scenario :
        /\ entries[k].ref = << "refs/", "heads/", "dev" >>
        /\ entries[k].ok =>
              /\ ScenarioKey \in DOMAIN processed
              /\ processed[ScenarioKey] = entries[k].img
        /\ \A i \in CallsOf(k) :
              trace[i].op = "tag" =>
                  /\ trace[i].a = << "library", "/", "myapp" >>
                  /\ trace[i].b \in { None, << "latest" >> }

\* C21: the line resolves to refs/heads/dev, its artifact is recorded under
\* (url, refs/heads/dev), and it is tagged library/myapp with the tag myapp,
\* the first field of the line.
C21_ScenarioFirstField ==
    \A k \in Scenario :
        /\ entries[k].ref = << "refs/", "heads/", "dev" >>
        /\ entries[k].ok =>
              /\ ScenarioKey \in DOMAIN processed
              /\ processed[ScenarioKey] = entries[k].img
        /\ \A i \in CallsOf(k) :
              trace[i].op = "tag" =>
                  /\ trace[i].a = << "library", "/", "myapp" >>
                  /\ trace[i].b = << "myapp" >>

\* The line of the scenario was built and tagged.
C21_Witness ==
    \E k \in Scenario :
        /\ entries[k].ok
        /\ \E i \in CallsOf(k) : trace[i].op = "build" /\ trace[i].ok
        /\ \E i \in CallsOf(k) : trace[i].op = "tag" /\ trace[i].ok

\* The calls of operation op made for line k.
OpsOf(k, op) == { i \in CallsOf(k) : trace[i].op = op }

\* The name of the image of line k at the registry given.
RegistryNameOf(k) == opts.registry \o << "/" >> \o NameOf(k)

\* C22: with push off nothing is pushed and nothing is tagged with a registry
\* name; with push on and a registry the artifact is also tagged
\* <registry>/<namespace>/<name> and that name is pushed; with push on and no
\* registry <namespace>/<name> is pushed.  There is at most one push for a
\* line, and only after its tag calls succeeded.
C22_PushBehaviour ==
    \A k \in DOMAIN entries :
        /\ Cardinality(OpsOf(k, "push")) <= 1
        /\ \A j \in OpsOf(k, "push") :
              /\ \E i \in OpsOf(k, "tag") :
                    i < j /\ trace[i].ok /\ trace[i].a = NameOf(k)
              /\ \A i \in OpsOf(k, "tag") : i < j /\ trace[i].ok
        /\ ~opts.push =>
              /\ OpsOf(k, "push") = {}
              /\ \A i \in OpsOf(k, "tag") : trace[i].a = NameOf(k)
        /\ (opts.push /\ opts.registry # None) =>
              /\ entries[k].ok => Cardinality(OpsOf(k, "push")) = 1
              /\ \A j \in OpsOf(k, "push") :
                    /\ trace[j].a = RegistryNameOf(k)
                    /\ \E i \in OpsOf(k, "tag") :
                          /\ i < j
                          /\ trace[i].a = RegistryNameOf(k)
                          /\ trace[i].img = ArtifactOf(k)
                          /\ trace[i].b = entries[k].tag
        /\ (opts.push /\ opts.registry = None) =>
              /\ entries[k].ok => Cardinality(OpsOf(k, "push")) = 1
              /\ \A j \in OpsOf(k, "push") : trace[j].a = NameOf(k)
              /\ \A i \in OpsOf(k, "tag") : trace[i].a = NameOf(k)

\* With push on and a registry given, a line was tagged twice and pushed.
C22_Witness ==
    /\ opts.push
    /\ opts.registry # None
    /\ \E k \in DOMAIN entries :
          /\ entries[k].ok
          /\ Cardinality(OpsOf(k, "tag")) = 2
          /\ \E j \in OpsOf(k, "push") :
                trace[j].ok /\ trace[j].a = RegistryNameOf(k)

\* The lines whose working tree had no Dockerfile.
NoDockerfileLines ==
    { k \in DOMAIN entries : \E i \in OpsOf(k, "dockerfile") : ~trace[i].ok }

\* C23: a line whose working tree has no Dockerfile ends as a Failure with
\* that message; nothing is built, tagged or pushed for it, no artifact is
\* recorded under its key, and the loop goes on.
C23_NoDockerfileFails ==
    \A k \in NoDockerfileLines :
        LET e == entries[k]
        IN  /\ ~e.ok
            /\ e.exc = NoDockerfile
            /\ OpsOf(k, "build") = {}
            /\ OpsOf(k, "tag") = {}
            /\ OpsOf(k, "push") = {}
            /\ pc \in { "lines", "finish", "done" }
            /\ k = Len(entries) =>
                  /\ BuildKey(e.url, e.ref) \notin DOMAIN processed
                  /\ \A key \in DOMAIN processed :
                        processed[key].kind = "img" => key \in DOMAIN e.before
                  /\ e.file \in DOMAIN summary.data
                  /\ e.line \in DOMAIN summary.data[e.file]
                  /\ summary.data[e.file][e.line].kind = "exc"
                  /\ summary.data[e.file][e.line].exc = NoDockerfile

\* A line without a Dockerfile failed and the line after it was built.
C23_Witness ==
    \E k \in NoDockerfileLines :
        /\ k + 1 \in DOMAIN entries
        /\ entries[k + 1].ok
        /\ OpsOf(k + 1, "build") # {}

\* C24: the temporary directories are removed after the last line was
\* processed and the last file closed, and before the report is rendered;
\* the report is rendered once, whatever failed.
C24_CleanupThenReport ==
    /\ Cardinality(Ops("print_summary")) <= 1
    /\ report.rendered <=> Ops("print_summary") # {}
    /\ \A i \in Ops("rmtree") :
          /\ \A j \in DOMAIN trace :
                (trace[j].entry > 0 \/ trace[j].op \in { "open", "close" }) => j < i
          /\ \E j \in Ops("print_summary") : i < j
    /\ pc = "done" =>
          /\ Cardinality(Ops("print_summary")) = 1
          /\ trace[Len(trace)].op = "print_summary"
          /\ \A n \in DOMAIN processed_folders :
                \E i \in Ops("rmtree") : trace[i].dir = processed_folders[n]
    /\ pc \in { "lines", "finish" } => Ops("rmtree") = {} /\ ~report.rendered

\* A run with a failed line and a built one has removed a directory and
\* rendered the report.
C24_Witness ==
    /\ pc = "done"
    /\ Ops("rmtree") # {}
    /\ Failed # {}
    /\ \E k \in DOMAIN entries : entries[k].ok
    /\ report.rendered

\* The URLs with a Repo registered in processed.
Handles == { u \in DOMAIN processed : processed[u].kind = "rep" }

\* The working directory of a registered Repo.
PathOf(h) == repos[h.id].path

\* C25: each URL has at most one Repo registered and each registered Repo
\* exactly one registered directory, its own; a registered Repo is never
\* replaced; a URL is cloned only when it has none, and the checkouts of a URL
\* that has a Repo are made on that Repo, in its directory.
C25_OneHandlePerUrl ==
    /\ Len(processed_folders) = Cardinality(Handles)
    /\ \A m, n \in DOMAIN processed_folders :
          m # n => processed_folders[m] # processed_folders[n]
    /\ \A u \in Handles :
          \E n \in DOMAIN processed_folders :
              processed_folders[n] = PathOf(processed[u])
    /\ \A u, v \in Handles :
          u # v => PathOf(processed[u]) # PathOf(processed[v])
    /\ \A k \in DOMAIN entries :
          LET e == entries[k]
          IN  /\ \A u \in DOMAIN e.before :
                    e.before[u].kind = "rep" =>
                        u \in DOMAIN processed /\ processed[u] = e.before[u]
              /\ OpsOf(k, "clone") # {} => e.url \notin DOMAIN e.before
              /\ (e.url \in DOMAIN e.before /\ e.before[e.url].kind = "rep") =>
                    /\ OpsOf(k, "clone") = {}
                    /\ \A i \in OpsOf(k, "checkout") :
                          /\ trace[i].img = e.before[e.url]
                          /\ trace[i].dir = PathOf(e.before[e.url])

\* A second revision of a URL was checked out on the Repo of the first.
C25_Witness ==
    \E j, k \in DOMAIN entries :
        /\ j < k
        /\ entries[j].url = entries[k].url
        /\ entries[j].ref # entries[k].ref
        /\ \E i \in OpsOf(j, "clone") : trace[i].ok
        /\ \E i \in OpsOf(k, "checkout") : trace[i].ok
        /\ Cardinality(Handles) = 1

\* C26: for a line whose third field is C:<hash>, clone and checkout look
\* <hash> up as a commit id, never as a symbolic ref, whatever its text.
C26_CommitNeverSymbolic ==
    \A k \in DOMAIN entries :
        (/\ entries[k].rev # None
         /\ Len(entries[k].rev) >= 2
         /\ entries[k].rev[1] = "C"
         /\ entries[k].rev[2] = ":") =>
            \A i \in OpsOf(k, "clone") \cup OpsOf(k, "checkout") :
                /\ trace[i].how = "commit"
                /\ << "C", ":" >> \o trace[i].b = entries[k].rev

\* The place of a manifest file in the listing of library/.
PlaceOf(image) == CHOOSE n \in DOMAIN dirlist : dirlist[n] = image

\* C27: the report lists the rows in the order the lines were declared: file
\* by file in the order of the listing, and within a file by ascending line
\* number.
C27_DeclarationOrder ==
    report.rendered =>
        \A i, j \in DOMAIN report.order :
            i < j =>
                IF report.order[i].image = report.order[j].image
                THEN report.order[i].line < report.order[j].line
                ELSE PlaceOf(report.order[i].image) < PlaceOf(report.order[j].image)

\* The URLs and the keys the lines of the manifest can give.
PoolUrls == { ParseLine(l).url : l \in pool } \ { None }
PoolKeys ==
    { BuildKey(ParseLine(l).url, ParseLine(l).ref) :
        l \in { x \in pool : ParseLine(x).exc = "" /\ ParseLine(x).url # None } }

\* C28: what processed holds under a URL is a Repo and what it holds under
\* a key url@ref is an artifact: git.checkout is given a Repo, client.tag an
\* image, and a registered Repo stays what it was.
C28_SeparateMappings ==
    /\ \A u \in PoolUrls :
          u \in DOMAIN processed => processed[u].kind = "rep"
    /\ \A key \in PoolKeys :
          key \in DOMAIN processed => processed[key].kind = "img"
    /\ \A k \in DOMAIN entries :
          /\ \A i \in OpsOf(k, "checkout") : trace[i].img.kind = "rep"
          /\ \A i \in OpsOf(k, "tag") : trace[i].img.kind = "img"
          /\ \A u \in DOMAIN entries[k].before :
                entries[k].before[u].kind = "rep" => processed[u] = entries[k].before[u]

\* The steps of a line in the order of the code: the prefill pull, then
\* git.clone or git.checkout, the Dockerfile check, client.build, client.tag,
\* client.push.
StepsInOrder == << { "pull" }, { "clone", "checkout" }, { "dockerfile" },
                   { "build" }, { "tag" }, { "push" } >>

StepOf(op) == CHOOSE n \in DOMAIN StepsInOrder : op \in StepsInOrder[n]

\* C29: the calls of a line come in the order fetch or checkout, Dockerfile
\* check, build, tag, push (after the pull, with prefill), each step at most
\* once and only when every call before it for the line returned; the calls
\* of a line all come before the calls of the next.
C29_StepsInOrder ==
    /\ \A i \in DOMAIN trace :
          trace[i].entry > 0 => \E n \in DOMAIN StepsInOrder : trace[i].op \in StepsInOrder[n]
    /\ \A i, j \in DOMAIN trace :
          (i < j /\ trace[i].entry > 0 /\ trace[j].entry > 0) =>
              /\ trace[i].entry <= trace[j].entry
              /\ trace[i].entry = trace[j].entry =>
                    /\ StepOf(trace[i].op) < StepOf(trace[j].op)
                    /\ trace[i].ok
    /\ \A k \in DOMAIN entries :
          /\ OpsOf(k, "build") # {} =>
                OpsOf(k, "dockerfile") # {} /\ OpsOf(k, "clone") \cup OpsOf(k, "checkout") # {}
          /\ OpsOf(k, "push") # {} => OpsOf(k, "tag") # {}
          /\ entries[k].exc = FormatError => CallsOf(k) = {}

\* A line went through every step, from the clone to the push, after a line
\* that stopped at a failed build.
C29_Witness ==
    \E j, k \in DOMAIN entries :
        /\ j < k
        /\ \E i \in OpsOf(j, "build") : ~trace[i].ok
        /\ OpsOf(j, "tag") = {}
        /\ \E i \in OpsOf(k, "push") : trace[i].ok
        /\ OpsOf(k, "build") # {}

\* The names of the listing of library/ up to place n.
ListedUpTo(n) == { dirlist[m] : m \in { x \in DOMAIN dirlist : x <= n } }

\* C30: the file MAINTAINERS is never opened and has no line and no group in
\* the Summary; every other name of library/, maintainers too, is opened as
\* a manifest file, and the images of its lines bear its name.
C30_MaintainersSkipped ==
    /\ \A i \in Ops("open") : trace[i].a # << "MAINTAINERS" >>
    /\ \A k \in DOMAIN entries : entries[k].file # << "MAINTAINERS" >>
    /\ << "MAINTAINERS" >> \notin DOMAIN summary.data
    /\ \A r \in report.rows : r.image # << "MAINTAINERS" >>
    /\ pc \in { "lines", "finish", "done" } =>
          \A name \in ListedUpTo(IF pc = "lines" THEN fidx ELSE Len(dirlist)) :
              name # << "MAINTAINERS" >> =>
                  \E i \in Ops("open") : trace[i].a = name
    /\ \A k \in DOMAIN entries :
          /\ \E n \in DOMAIN dirlist : dirlist[n] = entries[k].file
          /\ \A i \in OpsOf(k, "pull") : trace[i].a = entries[k].file
          /\ \A i \in OpsOf(k, "tag") :
                /\ Len(trace[i].a) = 3
                /\ trace[i].a[2] = "/"
                /\ << trace[i].a[3] >> = entries[k].file

\* A listing with MAINTAINERS and maintainers: the run is over, the file
\* maintainers gave an image of that name.
C30_Witness ==
    /\ pc = "done"
    /\ \E m, n \in DOMAIN dirlist :
          dirlist[m] = << "MAINTAINERS" >> /\ dirlist[n] = << "maintainers" >>
    /\ \E k \in DOMAIN entries :
          /\ entries[k].file = << "maintainers" >>
          /\ \E i \in OpsOf(k, "tag") : trace[i].ok

\* C31: a run that aborts after a temporary directory was made for the
\* manifest repository has removed that directory when it returns.
C31_AbortRemovesManifestDir ==
    pc = "aborted" =>
        \A i \in Ops("clone") : trace[i].entry = 0 => trace[i].dir \notin disk

\* C32: with a local path as the repository, no rmtree is ever called on
\* that path: every directory removed is one that the run made.
C32_LocalPathKept ==
    ~IsRemote(Repository) =>
        /\ pc # "start" => dst_folder.kind = "str" /\ dst_folder.str = Repository
        /\ \A i \in Ops("rmtree") :
              /\ trace[i].a # Repository
              /\ trace[i].a = << >>
              /\ trace[i].dir \in 1..ndirs
              /\ \E j \in Ops("clone") : j < i /\ trace[j].dir = trace[i].dir

\* A run on a local path is over and has removed a directory it made.
C32_Witness ==
    /\ ~IsRemote(Repository)
    /\ pc = "done"
    /\ Ops("rmtree") # {}
    /\ report.rendered

C34_ArtifactFromOwnBuild ==
    \A k \in DOMAIN entries :
        LET e == entries[k]
            key == BuildKey(e.url, e.ref)
        IN  /\ (e.exc # FormatError /\ key \in DOMAIN processed) =>
                  /\ processed[key].kind = "img"
                  /\ \E i \in Ops("build") :
                        /\ trace[i].ok
                        /\ trace[i].img = processed[key]
                        /\ trace[i].entry \in DOMAIN entries
                        /\ entries[trace[i].entry].url = e.url
                        /\ entries[trace[i].entry].ref = e.ref
            /\ (~e.ok /\ k = Len(entries)) =>
                  \A x \in DOMAIN processed :
                      processed[x].kind = "img" =>
                          x \in DOMAIN e.before /\ e.before[x] = processed[x]

\* The lines served from processed: tagged without a build.
Served == { k \in DOMAIN entries : OpsOf(k, "tag") # {} /\ OpsOf(k, "build") = {} }

\* C35: a line is served an artifact from processed only when an earlier
\* line had the same url and the same ref, and lines that differ in url or
\* ref have different keys.
C35_KeysInjective ==
    /\ \A k \in Served :
          \E j \in DOMAIN entries :
              /\ j < k
              /\ entries[j].url = entries[k].url
              /\ entries[j].ref = entries[k].ref
              /\ entries[j].img = entries[k].img
    /\ \A j, k \in Parsed :
          (entries[j].url # entries[k].url \/ entries[j].ref # entries[k].ref) =>
              BuildKey(entries[j].url, entries[j].ref)
                  # BuildKey(entries[k].url, entries[k].ref)

\* C36: in a rendered report the overall flag is True exactly when every
\* row shown is OK.
C36_FlagAgreesWithRows ==
    report.rendered =>
        (report.success <=> \A r \in report.rows : r.status = "OK")

====
